---- MODULE Spec2Model ----
(***************************************************************************)
(* Vote engine of the moderation bot (src/main.py).                        *)
(*                                                                         *)
(* The bot runs on one asyncio event loop: a handler runs without          *)
(* interruption from one `await` of a platform call to the next, and       *)
(* handlers of different updates interleave at those awaits.  Each action  *)
(* below is one such uninterrupted segment of a handler or task.           *)
(*                                                                         *)
(* Python dictionaries are functions whose DOMAIN is the set of keys       *)
(* present.  A session dictionary lives in `sessions` (the heap) under the *)
(* id of the start request that built it; active_votes maps a chat to the  *)
(* id of its session, as the Python dict holds a reference to it.          *)
(***************************************************************************)
EXTENDS Integers, FiniteSets, Sequences, TLC

\* ---------------------------------------------------------------- bounds
NumUsers == 3        \* members of the chat, specification Spec
MaxStarts == 2       \* start requests that pass the entry checks, Spec
NumUsersTally == 5   \* members of the chat, specification SpecTally

\* ------------------------------------------------------ program constants
votes_needed_mute == 3
votes_needed_ban == 5
vote_duration == 300
mute_duration == 300
ban_duration == 0

DEFAULT_SETTINGS ==
    [vote_duration |-> vote_duration,
     mute_duration |-> mute_duration,
     ban_duration |-> ban_duration,
     votes_needed_mute |-> votes_needed_mute,
     votes_needed_ban |-> votes_needed_ban]

\* ------------------------------------------------------------ environment
VoteTypes == {"mute", "ban"}
NoReply == 0         \* message.reply_to_message is None

\* ChatMemberStatus the platform reports for a user id.
Status(u) ==
    IF u = 1 THEN "creator"
    ELSE IF u = 2 THEN "administrator"
    ELSE "member"

\* str(user_id) inside an f-string, and int(parts[3]).
Digits == <<"1", "2", "3", "4", "5", "6", "7">>
ToStr(n) == Digits[n]
IsNumeric(s) == \E n \in 1..Len(Digits) : Digits[n] = s
ParseInt(s) == CHOOSE n \in 1..Len(Digits) : Digits[n] = s

\* f"vote_{option}_{vote_type}_{target_user_id}" and data.split('_')
CallbackData(option, vt, target) == <<"vote", option, vt, ToStr(target)>>

\* The argument of a set command (message.text.split()[1]): absent, not
\* a number, or a number of seconds.
NoArg == [kind |-> "none", seconds |-> 0]
TextArg == [kind |-> "text", seconds |-> 0]
IntArg(n) == [kind |-> "int", seconds |-> n]

\* ------------------------------------------------------------ dictionaries
Put(f, k, v) == [x \in (DOMAIN f) \cup {k} |-> IF x = k THEN v ELSE f[x]]
Drop(f, k) == [x \in (DOMAIN f) \ {k} |-> f[x]]
EmptyDict == [x \in {} |-> 0]

VARIABLES
    scope,           \* what a run draws its inputs from: the chats, their members
                     \* (users), the users that ask for votes (initiators), the
                     \* vote types asked for (types), the users that start
                     \* requests and ballots name as target (targets),
                     \* the users that admin commands name (named), the option
                     \* tokens of ballots (options), how many start requests
                     \* pass the entry checks (starts), the users that send
                     \* set commands (setters), the arguments they give for
                     \* each setting (args), the outcomes of the member
                     \* lookups of set commands (lookups), the voters and
                     \* the ballots of a session whose display update is
                     \* followed (watched, updates), and the outcomes of
                     \* edit_text (edits)
    active_votes,    \* chat -> id of the chat's session
    sessions,        \* id -> session dictionary (heap of live session objects)
    chat_settings,   \* chat -> settings dictionary
    chat_admins,     \* chat -> set of assigned admins
    starting,        \* start_vote calls suspended at an await
    timers,          \* end_vote_timer tasks asleep
    finalizing,      \* finalize_vote calls suspended at an await
    nextId,          \* id of the next start request
    answer,          \* the message sent by the step just taken: the reply of
                     \* start_vote or process_vote, with the user it answers
                     \* and the target that user named, or the outcome
                     \* summary of finalize_vote (NoAnswer after other steps)
    removed,         \* history: id -> times finalize_vote popped that session
    execCalls,       \* history: id -> restrict/ban calls issued for that session
    summaries,       \* history: id -> outcome summaries sent for that session
    lost,            \* history: ids of sessions overwritten in active_votes
    assignedAtStart, \* history: ids of requests whose target was an assigned admin
    selfAtStart,     \* history: ids of requests whose target was their initiator
    durationAtStart, \* history: id -> the mute/ban duration configured when the session was stored
    display,         \* message id -> the vote message as the chat shows it:
                     \* its chat, the type and target its buttons carry and
                     \* the tally in its text
    editing          \* process_vote calls suspended at `await edit_text`

vars == <<scope, active_votes, sessions, chat_settings, chat_admins, starting,
          timers, finalizing, nextId, answer, removed, execCalls, summaries,
          lost, assignedAtStart, selfAtStart,
                   durationAtStart,
                   display,
                   editing>>

\* The text of a message that is not an outcome summary (not modelled).
NoText ==
    [votes_yes |-> 0, votes_no |-> 0, total_votes |-> 0,
     activated |-> FALSE, error |-> FALSE]

\* A reply to user `from`, who named `target` (0: none).
Reply(code, from, target) ==
    [reply |-> code, from |-> from, target |-> target, text |-> NoText]
NoAnswer == Reply("None", 0, 0)

\* ------------------------------------------------------------------ Init
\* A scope whose set commands come from the owner without an argument.
BaseScope(users, chats, initiators, types, targets, named, options, starts) ==
    [users |-> users, chats |-> chats, initiators |-> initiators,
     types |-> types, targets |-> targets, named |-> named,
     options |-> options, starts |-> starts,
     setters |-> {1}, watched |-> {1}, updates |-> {Cardinality(users)}, edits |-> {FALSE},
     args |-> [vote_duration |-> {NoArg}, mute_duration |-> {NoArg},
               ban_duration |-> {NoArg}],
     lookups |-> {TRUE}]

InitScope(sc) ==
    /\ scope = sc
    /\ active_votes = EmptyDict
    /\ sessions = EmptyDict
    /\ chat_settings = EmptyDict
    /\ chat_admins = EmptyDict
    /\ starting = {}
    /\ timers = {}
    /\ finalizing = {}
    /\ nextId = 1
    /\ answer = NoAnswer
    /\ removed = EmptyDict
    /\ execCalls = EmptyDict
    /\ summaries = EmptyDict
    /\ lost = {}
    /\ assignedAtStart = {}
    /\ selfAtStart = {}
    /\ durationAtStart = EmptyDict
    /\ display = EmptyDict
    /\ editing = {}

InitWith(users, chats, initiators, types, targets, named, options, starts) ==
    InitScope(BaseScope(users, chats, initiators, types, targets, named,
                        options, starts))

\* Concurrent and consecutive mute votes in one chat, asked for by the owner
\* (user 1) against a plain member (user 3), every ballot a "yes".
Init ==
    InitWith(1..NumUsers, {1}, {1}, {"mute"}, {3}, {}, {"yes"}, MaxStarts)

\* One vote of either type in one chat, asked for by the platform
\* administrator (user 2) or a plain member (user 3) against either of
\* them, with every option token a ballot can carry.
InitTally ==
    InitWith(1..NumUsersTally, {1}, {2, 3}, VoteTypes, {2, 3}, {},
             {"yes", "no", "maybe"}, 1)

\* One mute vote in a chat whose owner assigns and removes an admin (user 3).
InitAdmins ==
    InitWith(1..NumUsers, {1}, {1}, {"mute"}, {3}, {3}, {"yes"}, 1)

\* One vote of either type in a chat whose owner (user 1) changes the mute
\* and ban durations, every ballot a "yes".
InitSettings ==
    InitScope([BaseScope(1..NumUsersTally, {1}, {1}, VoteTypes, {3}, {},
                         {"yes"}, 1)
               EXCEPT !.args = [vote_duration |-> {NoArg},
                                mute_duration |-> {NoArg, IntArg(60)},
                                ban_duration |-> {NoArg, IntArg(0),
                                                  IntArg(60)}]])

\* One mute vote in one chat, asked for by the owner against a plain
\* member, every ballot a "yes".
InitLive ==
    InitWith(1..NumUsers, {1}, {1}, {"mute"}, {3}, {}, {"yes"}, 1)

\* Mute votes in two chats with the same members, asked for by the owner
\* against a plain member, every ballot a "yes".
InitChats ==
    InitWith(1..NumUsers, {1, 2}, {1}, {"mute"}, {3}, {}, {"yes"}, 2)

\* One mute vote in one chat, asked for by the owner against a plain
\* member, with approving and rejecting ballots; the display update of
\* every voter is followed, and the platform may refuse an update.
InitDisplay ==
    InitScope([BaseScope(1..NumUsers, {1}, {1}, {"mute"}, {3}, {},
                         {"yes", "no"}, 1)
               EXCEPT !.watched = 1..NumUsers, !.updates = 1..NumUsers,
                      !.edits = BOOLEAN])

\* One mute vote in a chat where every member sends set commands: without
\* an argument, with a text, and with numbers at and beyond the ends of
\* each range; the member lookups of the commands answer or raise.
InitRanges ==
    InitScope([BaseScope(1..NumUsers, {1}, {1}, {"mute"}, {3}, {},
                         {"yes"}, 1)
               EXCEPT !.setters = 1..NumUsers,
                      !.lookups = BOOLEAN,
                      !.args = [vote_duration |->
                                    {NoArg, TextArg, IntArg(29), IntArg(3600),
                                     IntArg(3601)},
                                mute_duration |->
                                    {IntArg(0), IntArg(29), IntArg(30),
                                     IntArg(86400), IntArg(86401)},
                                ban_duration |->
                                    {IntArg(-30), IntArg(0), IntArg(29),
                                     IntArg(86400), IntArg(86401)}]])

\* ------------------------------------------------------- settings, admins
\* get_chat_settings: the dictionary after the call (the chat's entry is
\* created with the defaults when absent).
get_chat_settings(cs, c) ==
    IF c \in DOMAIN cs THEN cs ELSE Put(cs, c, DEFAULT_SETTINGS)

\* get_chat_admins: the dictionary after the call.
get_chat_admins(ca, c) ==
    IF c \in DOMAIN ca THEN ca ELSE Put(ca, c, {})

\* is_owner: `ok` is whether bot.get_chat_member answered.
is_owner(u, ok) == ok /\ Status(u) = "creator"

\* is_admin: owner, or assigned admin, or platform administrator; an
\* exception of the second lookup gives False.
is_admin(ca, c, u, okOwner, okMember) ==
    \/ is_owner(u, okOwner)
    \/ u \in get_chat_admins(ca, c)[c]
    \/ (okMember /\ Status(u) = "administrator")

\* ------------------------------------------------------------- start_vote
\* The checks of start_vote before its first await (lines 519-534).
EntryCheck(active, target) ==
    IF active THEN "AlreadyActive"
    ELSE IF target = NoReply THEN "NoReplyTarget"
    ELSE "Ok"

\* Whether the member lookup reports a privileged status (line 542).
IsPrivileged(status) == status \in {"administrator", "creator"}

\* The same checks with the self-target check first.
TargetCheck_SelfFirst(status, from, target) ==
    IF target = from THEN "SelfTarget"
    ELSE IF status \in {"administrator", "creator"} THEN "TargetIsPrivileged"
    ELSE "Ok"

\* The same checks without the self-target check.
TargetCheck_NoSelf(status, from, target) ==
    IF status \in {"administrator", "creator"} THEN "TargetIsPrivileged"
    ELSE "Ok"

\* The same checks, rejecting when the member lookup raised.
TargetCheck_FailClosed(status, from, target) ==
    IF status \in {"administrator", "creator", "error"}
    THEN "TargetIsPrivileged"
    ELSE IF target = from THEN "SelfTarget"
    ELSE "Ok"

\* The checks of start_vote after bot.get_chat_member (lines 540-558);
\* `status` is "error" when the lookup raised.
TargetCheck(status, from, target) ==
    IF IsPrivileged(status) THEN "TargetIsPrivileged"
    ELSE IF target = from THEN "SelfTarget"
    ELSE "Ok"

\* votes_needed of a new vote (lines 560-565).
VotesNeeded(settings, vt) ==
    IF vt = "mute" THEN settings.votes_needed_mute
    ELSE settings.votes_needed_ban

\* The durations of DEFAULT_SETTINGS, whatever the chat has configured.
ActionDuration_Default(settings, vt) ==
    IF vt = "mute" THEN mute_duration ELSE ban_duration

\* The duration the platform call is given (lines 751, 770-774): 0 is an
\* indefinite ban.
ActionDuration(settings, vt) ==
    IF vt = "mute" THEN settings.mute_duration ELSE settings.ban_duration

\* The session dictionary start_vote builds (lines 587-597).
NewSession(vt, target, needed, msg) ==
    [type |-> vt,
     target_user_id |-> target,
     votes_yes |-> 0,
     votes_no |-> 0,
     voters |-> {},
     message_id |-> msg,
     votes_needed |-> needed]

\* active_votes after `active_votes[chat_id] = {...}` (line 587).
StoreSession(av, c, id) == Put(av, c, id)

\* start_vote, from the handler's entry to `await bot.get_chat_member`.
start_vote(c, vt, from, target) ==
    LET r == EntryCheck(c \in DOMAIN active_votes, target) IN
    /\ chat_settings' = get_chat_settings(chat_settings, c)
    /\ IF r # "Ok"
       THEN /\ answer' = Reply(r, from, target)
            /\ UNCHANGED <<starting, nextId, assignedAtStart, selfAtStart>>
       ELSE /\ nextId <= scope.starts
            /\ starting' = starting \cup
                 {[id |-> nextId, chat |-> c, type |-> vt, from |-> from,
                   target |-> target, pc |-> "get_chat_member",
                   votes_needed |-> 0]}
            /\ nextId' = nextId + 1
            /\ assignedAtStart' =
                 IF c \in DOMAIN chat_admins /\ target \in chat_admins[c]
                 THEN assignedAtStart \cup {nextId} ELSE assignedAtStart
            /\ selfAtStart' =
                 IF target = from
                 THEN selfAtStart \cup {nextId} ELSE selfAtStart
            /\ answer' = NoAnswer
    /\ UNCHANGED <<scope, active_votes, sessions, chat_admins, timers,
                   finalizing, removed, execCalls, summaries, lost,
                   durationAtStart,
                   display,
                   editing>>

\* start_vote, from the return of bot.get_chat_member to `await
\* message.answer(vote_text)`; `ok` is whether the lookup answered.  The
\* initiator is not read again and is dropped from the suspended call.
start_vote_checked(t, ok) ==
    LET status == IF ok THEN Status(t.target) ELSE "error"
        r == TargetCheck(status, t.from, t.target)
    IN
    /\ t \in starting
    /\ t.pc = "get_chat_member"
    /\ IF r # "Ok"
       THEN /\ answer' = Reply(r, t.from, t.target)
            /\ starting' = starting \ {t}
       ELSE /\ starting' = (starting \ {t}) \cup
                 {[id |-> t.id, chat |-> t.chat, type |-> t.type,
                   from |-> NoReply, target |-> t.target, pc |-> "answer",
                   votes_needed |->
                       VotesNeeded(chat_settings[t.chat], t.type)]}
            /\ answer' = NoAnswer
    /\ UNCHANGED <<scope, active_votes, sessions, chat_settings, chat_admins,
                   timers, finalizing, nextId, removed, execCalls, summaries,
                   lost, assignedAtStart, selfAtStart,
                   durationAtStart,
                   display,
                   editing>>

\* The vote message as message.answer sends it: its buttons carry the
\* type and the target of the vote, its text shows no ballot yet.
VoteMessage(t) ==
    [chat |-> t.chat, type |-> t.type, target |-> t.target,
     text |-> [votes_yes |-> 0, votes_no |-> 0, total_votes |-> 0]]

\* start_vote, from the return of message.answer to the end: the session
\* is stored and its timer armed; `sent` is whether the vote message was
\* sent (an exception of message.answer ends the handler).
start_vote_sent(t, sent) ==
    /\ t \in starting
    /\ t.pc = "answer"
    /\ starting' = starting \ {t}
    /\ IF sent
       THEN /\ active_votes' = StoreSession(active_votes, t.chat, t.id)
            /\ sessions' =
                 LET kept == IF t.chat \in DOMAIN active_votes
                             THEN Drop(sessions, active_votes[t.chat])
                             ELSE sessions
                 IN Put(kept, t.id,
                        NewSession(t.type, t.target, t.votes_needed, t.id))
            /\ lost' = IF t.chat \in DOMAIN active_votes
                       THEN lost \cup {active_votes[t.chat]} ELSE lost
            /\ timers' = timers \cup {[id |-> t.id, chat |-> t.chat]}
            /\ removed' = Put(removed, t.id, 0)
            /\ execCalls' = Put(execCalls, t.id, 0)
            /\ summaries' = Put(summaries, t.id, 0)
            /\ durationAtStart' =
                 Put(durationAtStart, t.id,
                     ActionDuration(chat_settings[t.chat], t.type))
            /\ display' = Put(display, t.id, VoteMessage(t))
            /\ answer' = Reply("VoteStarted", 0, t.target)
       ELSE /\ answer' = Reply("Error", 0, t.target)
            /\ UNCHANGED <<active_votes, sessions, lost, timers, removed,
                           execCalls, summaries, durationAtStart, display>>
    /\ UNCHANGED <<scope, chat_settings, chat_admins, finalizing, nextId,
                   assignedAtStart, selfAtStart, editing>>

\* ----------------------------------------------------------- process_vote
\* A membership test that never finds the voter.
HasVoted_Never(vd, u) == FALSE

\* A membership test that also turns away every voter once the session
\* is decided.
HasVoted_OrDecided(vd, u) ==
    u \in vd.voters \/ vd.votes_yes >= vd.votes_needed

\* `user_id in vote_data['voters']` (line 661).
HasVoted(vd, u) == u \in vd.voters

\* parts[2] and parts[3] exist and parts[3] is a number (lines 668-671);
\* otherwise the handler ends with IndexError or ValueError.
WellFormed(d) == Len(d) >= 4 /\ IsNumeric(d[4])

\* A staleness test that compares the target only.
IsStale_TargetOnly(vd, vt, target) == target # vd.target_user_id

\* The staleness test of a ballot's declared type and target (line 673).
IsStale(vd, vt, target) ==
    target # vd.target_user_id \/ vt # vd.type

\* The tally update of an accepted ballot (lines 680-685).
ApplyBallot(vd, u, option) ==
    [vd EXCEPT
       !.votes_yes = IF option = "yes" THEN @ + 1 ELSE @,
       !.votes_no = IF option = "no" THEN @ + 1 ELSE @,
       !.voters = @ \cup {u}]

\* process_vote for the callback data `d` (already split at '_') pressed by
\* user u in chat c.  Nothing is awaited between the lookup of the session
\* and the update of its tally; the display update and the reply that
\* follow touch no state of the engine.
\* The target a ballot declares (0 when its data does not parse); the
\* AlreadyVoted answer records it, although process_vote answers before
\* it reads the data.
Declared(d) == IF WellFormed(d) THEN ParseInt(d[4]) ELSE 0

\* The tally that process_vote writes into the message text.
CurrentText(vd) ==
    [votes_yes |-> vd.votes_yes, votes_no |-> vd.votes_no,
     total_votes |-> Cardinality(vd.voters)]

\* process_vote, from its entry to `await callback.message.edit_text`: `m`
\* is the vote message whose button was pressed, `d` the callback data.
\* The checks and the ballot run without suspension, and the update of
\* the message (tally and buttons) is built before the call suspends.  A
\* rejected ballot is answered at once.  For an accepted ballot `answer`
\* records the outcome; the confirmation to the voter follows the display
\* update.  A run follows the suspended call when the voter is in
\* scope.watched and the ballot is the session's n-th, n in scope.updates;
\* the suspended call holds its session (the local vote_data).
process_vote(c, u, d, m) ==
    /\ m \in DOMAIN display
    /\ display[m].chat = c
    /\ IF c \notin DOMAIN active_votes
       THEN /\ answer' = Reply("Ended", u, 0)
            /\ UNCHANGED <<sessions, editing>>
       ELSE LET sid == active_votes[c]
                vd == sessions[sid]
            IN
            IF HasVoted(vd, u)
            THEN /\ answer' = Reply("AlreadyVoted", u, Declared(d))
                 /\ UNCHANGED <<sessions, editing>>
            ELSE IF ~WellFormed(d)
            THEN /\ answer' = Reply("Error", u, 0)
                 /\ UNCHANGED <<sessions, editing>>
            ELSE IF IsStale(vd, d[3], ParseInt(d[4]))
            THEN /\ answer' = Reply("Stale", u, 0)
                 /\ UNCHANGED <<sessions, editing>>
            ELSE /\ sessions' =
                      [sessions EXCEPT ![sid] = ApplyBallot(vd, u, d[2])]
                 /\ editing' =
                      IF /\ u \in scope.watched
                         /\ Cardinality(vd.voters) + 1 \in scope.updates
                      THEN editing \cup
                             {[message |-> m, session |-> sid, from |-> u,
                               type |-> vd.type, target |-> ParseInt(d[4]),
                               text |-> CurrentText(ApplyBallot(vd, u, d[2]))]}
                      ELSE editing
                 /\ answer' = Reply("Accepted", u, 0)
    /\ UNCHANGED <<scope, active_votes, chat_settings, chat_admins, starting,
                   timers, finalizing, nextId, removed, execCalls, summaries,
                   lost, assignedAtStart, selfAtStart, durationAtStart,
                   display>>

\* A handler that takes the ballot back when edit_text raises.
process_vote_edited_Rollback(e, ok) ==
    /\ e \in editing
    /\ editing' = editing \ {e}
    /\ display' = IF ok
                  THEN [display EXCEPT ![e.message] =
                           [chat |-> @.chat, type |-> e.type,
                            target |-> e.target, text |-> e.text]]
                  ELSE display
    /\ sessions' = IF ok \/ e.session \notin DOMAIN sessions
                   THEN sessions
                   ELSE [sessions EXCEPT ![e.session].voters = @ \ {e.from}]
    /\ answer' = Reply(IF ok THEN "Confirmed" ELSE "Error", e.from, 0)
    /\ UNCHANGED <<scope, active_votes, chat_settings, chat_admins,
                   starting, timers, finalizing, nextId, removed, execCalls,
                   summaries, lost, assignedAtStart, selfAtStart,
                   durationAtStart>>

\* process_vote, from the return of edit_text to the end: the platform
\* has replaced the text and the buttons of the pressed message (`ok`) and
\* the voter is told the ballot was taken, or edit_text raised, which ends
\* the handler (outcome Error).
process_vote_edited(e, ok) ==
    /\ e \in editing
    /\ editing' = editing \ {e}
    /\ display' = IF ok
                  THEN [display EXCEPT ![e.message] =
                           [chat |-> @.chat, type |-> e.type,
                            target |-> e.target, text |-> e.text]]
                  ELSE display
    /\ answer' = Reply(IF ok THEN "Confirmed" ELSE "Error", e.from, 0)
    /\ UNCHANGED <<scope, active_votes, sessions, chat_settings, chat_admins,
                   starting, timers, finalizing, nextId, removed, execCalls,
                   summaries, lost, assignedAtStart, selfAtStart,
                   durationAtStart>>

\* The callback data a client can send: the buttons' data of any vote, a
\* forged option token, and data with parts missing or a non-numeric id
\* (the handler's filter is only data.startswith('vote_')).
BallotData(options, types, targets) ==
    {CallbackData(o, vt, n) : o \in options, vt \in types, n \in targets}
    \cup {<<"vote", "yes">>, <<"vote", "yes", "mute", "x">>}

\* ---------------------------------------------- end_vote_timer, finalize_vote
\* A read of the session that leaves it in active_votes.
PopActive_Peek(av, c) == av

\* A removal that forgets the session of every chat.
PopActive_Clear(av, c) == EmptyDict

\* active_votes after `active_votes.pop(chat_id)` (line 722).
PopActive(av, c) == Drop(av, c)

\* A decision rule on the net majority.
Triggered_Net(vd) == vd.votes_yes - vd.votes_no >= vd.votes_needed

\* The decision rule (line 742).
Triggered(vd) == vd.votes_yes >= vd.votes_needed

\* finalize_vote from its entry to its first await: the pop, the tally
\* read into locals, the decision and the platform call being issued (or,
\* without a decision, the summary being sent).
finalize_vote(c) ==
    LET sid == active_votes[c]
        vd == sessions[sid]
        settings == get_chat_settings(chat_settings, c)[c]
        hit == Triggered(vd)
    IN
    /\ chat_settings' = get_chat_settings(chat_settings, c)
    /\ active_votes' = PopActive(active_votes, c)
    /\ removed' = [removed EXCEPT ![sid] = @ + 1]
    /\ execCalls' = [execCalls EXCEPT ![sid] = IF hit THEN @ + 1 ELSE @]
    /\ finalizing' = finalizing \cup
         {[sid |-> sid, chat |-> c, type |-> vd.type,
           target |-> vd.target_user_id,
           votes_yes |-> vd.votes_yes, votes_no |-> vd.votes_no,
           total_votes |-> Cardinality(vd.voters),
           votes_needed |-> vd.votes_needed,
           duration |-> ActionDuration(settings, vd.type),
           activated |-> hit,
           pc |-> IF hit THEN "execute" ELSE "send_message",
           error |-> FALSE]}

\* end_vote_timer when its sleep ends (lines 712-713).
end_vote_timer(t) ==
    /\ t \in timers
    /\ timers' = timers \ {t}
    /\ IF t.chat \in DOMAIN active_votes
       THEN finalize_vote(t.chat)
       ELSE UNCHANGED <<chat_settings, active_votes, removed, execCalls,
                        finalizing>>
    /\ answer' = NoAnswer
    /\ UNCHANGED <<scope, sessions, chat_admins, starting, nextId,
                   summaries, lost, assignedAtStart, selfAtStart,
                   durationAtStart,
                   display,
                   editing>>

\* A platform call whose exception is not caught: the finalize ends there.
finalize_vote_executed_Uncaught(f, ok) ==
    /\ f \in finalizing
    /\ f.pc = "execute"
    /\ finalizing' = IF ok
                     THEN (finalizing \ {f}) \cup
                            {[f EXCEPT !.pc = "send_message"]}
                     ELSE finalizing \ {f}
    /\ answer' = NoAnswer
    /\ UNCHANGED <<scope, active_votes, sessions, chat_settings, chat_admins,
                   starting, timers, nextId, removed, execCalls,
                   summaries, lost, assignedAtStart, selfAtStart,
                   durationAtStart,
                   display,
                   editing>>

\* finalize_vote when restrict_chat_member or ban_chat_member returns; an
\* exception is caught and noted in the summary (lines 759, 776).
finalize_vote_executed(f, ok) ==
    /\ f \in finalizing
    /\ f.pc = "execute"
    /\ finalizing' = (finalizing \ {f}) \cup
         {[f EXCEPT !.pc = "send_message", !.error = ~ok]}
    /\ answer' = NoAnswer
    /\ UNCHANGED <<scope, active_votes, sessions, chat_settings, chat_admins,
                   starting, timers, nextId, removed, execCalls,
                   summaries, lost, assignedAtStart, selfAtStart,
                   durationAtStart,
                   display,
                   editing>>

\* What result_text tells (lines 734-783): the tally, the decision and
\* the error of the platform call.
ResultText(f) ==
    [votes_yes |-> f.votes_yes, votes_no |-> f.votes_no,
     total_votes |-> f.total_votes, activated |-> f.activated,
     error |-> f.error]

\* The outcome summary of the vote against f.target.
Summary(f) ==
    [reply |-> "Summary", from |-> 0, target |-> f.target,
     text |-> ResultText(f)]

\* finalize_vote when bot.send_message returns (line 785); `ok` is whether
\* the summary was sent.  The session object is no longer referenced once
\* the call ends.
finalize_vote_sent(f, ok) ==
    /\ f \in finalizing
    /\ f.pc = "send_message"
    /\ finalizing' = finalizing \ {f}
    /\ summaries' = [summaries EXCEPT ![f.sid] = IF ok THEN @ + 1 ELSE @]
    /\ sessions' = IF \E c \in DOMAIN active_votes : active_votes[c] = f.sid
                   THEN sessions ELSE Drop(sessions, f.sid)
    /\ answer' = IF ok THEN Summary(f) ELSE NoAnswer
    /\ UNCHANGED <<scope, active_votes, chat_settings, chat_admins, starting,
                   timers, nextId, removed, execCalls, lost,
                   assignedAtStart, selfAtStart,
                   durationAtStart,
                   display,
                   editing>>

\* ------------------------------------------- cmd_add_admin, cmd_remove_admin
NoUsername == 0      \* extract_username_from_text found no @username

\* cmd_add_admin.  Its awaits are lookups and its one write is its last
\* statement before the reply, so the handler is one step.  okOwner, okFind,
\* okOwner2 and okMember are whether each platform lookup answered.
cmd_add_admin(c, from, target, okOwner, okFind, okOwner2, okMember) ==
    /\ chat_admins' =
         IF ~is_owner(from, okOwner) \/ target = NoUsername \/ ~okFind
         THEN chat_admins
         ELSE IF is_admin(chat_admins, c, target, okOwner2, okMember)
         THEN IF is_owner(target, okOwner2)
              THEN chat_admins
              ELSE get_chat_admins(chat_admins, c)
         ELSE [get_chat_admins(chat_admins, c) EXCEPT ![c] = @ \cup {target}]
    /\ answer' = NoAnswer
    /\ UNCHANGED <<scope, active_votes, sessions, chat_settings, starting,
                   timers, finalizing, nextId, removed, execCalls, summaries,
                   lost, assignedAtStart, selfAtStart,
                   durationAtStart,
                   display,
                   editing>>

\* cmd_remove_admin, one step for the same reason.
cmd_remove_admin(c, from, target, okOwner, okFind) ==
    /\ chat_admins' =
         IF ~is_owner(from, okOwner) \/ target = NoUsername \/ ~okFind
         THEN chat_admins
         ELSE [get_chat_admins(chat_admins, c) EXCEPT ![c] = @ \ {target}]
    /\ answer' = NoAnswer
    /\ UNCHANGED <<scope, active_votes, sessions, chat_settings, starting,
                   timers, finalizing, nextId, removed, execCalls, summaries,
                   lost, assignedAtStart, selfAtStart,
                   durationAtStart,
                   display,
                   editing>>

\* ------------------ cmd_set_vote_time, cmd_set_mute_time, cmd_set_ban_time
\* The range checks (lines 273, 322, 371).
VoteTimeOk(seconds) == ~(seconds < 30 \/ seconds > 3600)
\* A mute range check that, like the ban one, lets 0 through.
MuteTimeOk_ZeroAllowed(seconds) ==
    ~(seconds # 0 /\ (seconds < 30 \/ seconds > 86400))

MuteTimeOk(seconds) == ~(seconds < 30 \/ seconds > 86400)
BanTimeOk(seconds) == ~(seconds # 0 /\ (seconds < 30 \/ seconds > 86400))

\* The body the three set commands share.  The handler awaits is_admin,
\* whose look at the assigned admins creates the chat's entry of
\* chat_admins, and then runs to its write without another await, so it is
\* one step.  `valid` is the command's range check of arg.seconds.  The
\* write indexes chat_settings directly: when the chat has no settings yet
\* it raises KeyError, which `except ValueError` does not catch, and the
\* handler ends without a write and without a reply (outcome Error).
SetReply(admin, arg, valid, known) ==
    IF ~admin THEN "NotAdmin"
    ELSE IF arg.kind = "none" THEN "NoValue"
    ELSE IF arg.kind # "int" THEN "NotNumber"
    ELSE IF ~valid THEN "OutOfRange"
    ELSE IF ~known THEN "Error"
    ELSE "Updated"

SetDuration(c, key, from, arg, valid, okOwner, okMember) ==
    LET admin == is_admin(chat_admins, c, from, okOwner, okMember)
        r == SetReply(admin, arg, valid, c \in DOMAIN chat_settings)
        written == r = "Updated"
    IN
    /\ chat_admins' = IF is_owner(from, okOwner) THEN chat_admins
                      ELSE get_chat_admins(chat_admins, c)
    /\ chat_settings' = IF written
                        THEN [chat_settings EXCEPT ![c][key] = arg.seconds]
                        ELSE chat_settings
    /\ answer' = Reply(r, from, 0)
    /\ UNCHANGED <<scope, active_votes, sessions, starting, timers,
                   finalizing, nextId, removed, execCalls, summaries, lost,
                   assignedAtStart, selfAtStart, durationAtStart,
                   display,
                   editing>>

cmd_set_vote_time(c, from, arg, okOwner, okMember) ==
    SetDuration(c, "vote_duration", from, arg, VoteTimeOk(arg.seconds),
                okOwner, okMember)

cmd_set_mute_time(c, from, arg, okOwner, okMember) ==
    SetDuration(c, "mute_duration", from, arg, MuteTimeOk(arg.seconds),
                okOwner, okMember)

cmd_set_ban_time(c, from, arg, okOwner, okMember) ==
    SetDuration(c, "ban_duration", from, arg, BanTimeOk(arg.seconds),
                okOwner, okMember)

\* ------------------------------------------------------------------ Next
\* The outcomes of a platform lookup: it answers or raises; one outcome
\* where the handler does not get to the lookup.
Outcomes(reached) == IF reached THEN BOOLEAN ELSE {TRUE}

Next ==
    \/ \E c \in scope.chats, vt \in scope.types, from \in scope.initiators,
          target \in scope.targets \cup {NoReply} :
          start_vote(c, vt, from, target)
    \/ \E t \in starting, ok \in BOOLEAN : start_vote_checked(t, ok)
    \/ \E t \in starting, sent \in BOOLEAN : start_vote_sent(t, sent)
    \/ \E c \in scope.chats, u \in scope.users, m \in DOMAIN display,
          d \in BallotData(scope.options, scope.types, scope.targets) :
          process_vote(c, u, d, m)
    \/ \E e \in editing, ok \in scope.edits : process_vote_edited(e, ok)
    \/ \E t \in timers : end_vote_timer(t)
    \/ \E f \in finalizing, ok \in BOOLEAN : finalize_vote_executed(f, ok)
    \/ \E f \in finalizing, ok \in BOOLEAN : finalize_vote_sent(f, ok)
    \/ \E c \in scope.chats, from \in scope.users,
          target \in scope.named \cup {NoUsername} :
          \E okOwner \in BOOLEAN, okFind \in Outcomes(target # NoUsername),
             okOwner2 \in Outcomes(target # NoUsername),
             okMember \in Outcomes(target # NoUsername) :
             cmd_add_admin(c, from, target, okOwner, okFind, okOwner2,
                           okMember)
    \/ \E c \in scope.chats, from \in scope.users,
          target \in scope.named \cup {NoUsername} :
          \E okOwner \in BOOLEAN, okFind \in Outcomes(target # NoUsername) :
             cmd_remove_admin(c, from, target, okOwner, okFind)
    \/ \E c \in scope.chats, from \in scope.setters,
          arg \in scope.args.vote_duration :
          \E okOwner \in scope.lookups, okMember \in scope.lookups :
             cmd_set_vote_time(c, from, arg, okOwner, okMember)
    \/ \E c \in scope.chats, from \in scope.setters,
          arg \in scope.args.mute_duration :
          \E okOwner \in scope.lookups, okMember \in scope.lookups :
             cmd_set_mute_time(c, from, arg, okOwner, okMember)
    \/ \E c \in scope.chats, from \in scope.setters,
          arg \in scope.args.ban_duration :
          \E okOwner \in scope.lookups, okMember \in scope.lookups :
             cmd_set_ban_time(c, from, arg, okOwner, okMember)

Spec == Init /\ [][Next]_vars

SpecTally == InitTally /\ [][Next]_vars

SpecAdmins == InitAdmins /\ [][Next]_vars

SpecSettings == InitSettings /\ [][Next]_vars

SpecChats == InitChats /\ [][Next]_vars

SpecDisplay == InitDisplay /\ [][Next]_vars

SpecRanges == InitRanges /\ [][Next]_vars

\* Every awaited platform call returns or raises, and every sleep ends:
\* a suspended start_vote, a sleeping end_vote_timer and a suspended
\* finalize_vote are each resumed.
Fairness ==
    \A id \in 1..MaxStarts :
        /\ WF_vars(\E t \in starting, ok \in BOOLEAN :
                      t.id = id /\ start_vote_checked(t, ok))
        /\ WF_vars(\E t \in starting, sent \in BOOLEAN :
                      t.id = id /\ start_vote_sent(t, sent))
        /\ WF_vars(\E t \in timers : t.id = id /\ end_vote_timer(t))
        /\ WF_vars(\E f \in finalizing, ok \in BOOLEAN :
                      f.sid = id /\ finalize_vote_executed(f, ok))
        /\ WF_vars(\E f \in finalizing, ok \in BOOLEAN :
                      f.sid = id /\ finalize_vote_sent(f, ok))

SpecLive == InitLive /\ [][Next]_vars /\ Fairness

\* Concurrent and consecutive votes in one chat under the same scheduling.
SpecFair == Init /\ [][Next]_vars /\ Fairness

\* ================================================================ claims
\* The properties of process_vote steps are stated contrapositively: a
\* step that does not answer as required, or changes what it must leave
\* alone, is not a process_vote step on such a ballot.

\* The ballots a run can send.
Ballots == BallotData(scope.options, scope.types, scope.targets)

\* The session dictionary of chat c's active vote.
VoteData(c) == sessions[active_votes[c]]

\* A well-formed ballot declares another type or another target than vd's.
\* (A process_vote step of user u ends with a reply to u, so the formulas
\* on such ballots range over the user the step's reply is addressed to.)
DeclaredMismatch(vd, d) ==
    d[3] # vd.type \/ ParseInt(d[4]) # vd.target_user_id

\* C1 (as claimed): session creation is exclusive per chat: of two
\* concurrent start requests that pass the target checks one creates the
\* session and the other is rejected, so no step replaces the session a
\* chat already has by another one.
C1_CreateIsExclusive ==
    [][\A c \in DOMAIN active_votes :
          c \in DOMAIN active_votes' => active_votes'[c] = active_votes[c]]_vars

\* C2: finalize is exactly-once per session: whatever the interleaving of
\* the timers of a chat, a session is popped from active_votes at most
\* once, at most one mute/ban call is issued and at most one summary is
\* sent for it, all of them by the finalize_vote call that popped it; a
\* trigger that finds no session starts no finalize.
C2_FinalizeOnce ==
    \A sid \in DOMAIN removed :
        /\ removed[sid] <= 1
        /\ execCalls[sid] <= removed[sid]
        /\ summaries[sid] <= removed[sid]
        /\ Cardinality({f \in finalizing : f.sid = sid}) + summaries[sid]
             <= removed[sid]

\* C2 witness: two start requests raced, so two timers were armed for the
\* chat; both have fired and the one session was finalized once, with its
\* mute call issued.
C2_Witness ==
    /\ lost # {}
    /\ timers = {}
    /\ \E sid \in DOMAIN removed : removed[sid] = 1 /\ execCalls[sid] = 1

\* C3: no ballot is accepted after finalize_vote has popped the session:
\* a popped session's counts and voter set never change again, the tally
\* finalize_vote decides on is the tally of the popped session, and a
\* ballot for a chat without a session is answered "ended" and changes
\* nothing.
C3_NoBallotAfterRemoval ==
    [][/\ \A sid \in DOMAIN sessions :
            (removed[sid] >= 1 /\ sid \in DOMAIN sessions')
                => sessions'[sid] = sessions[sid]
       /\ \A f \in finalizing' :
            f.sid \in DOMAIN sessions' =>
                /\ f.votes_yes = sessions'[f.sid].votes_yes
                /\ f.votes_no = sessions'[f.sid].votes_no
                /\ f.total_votes = Cardinality(sessions'[f.sid].voters)
       /\ \A c \in scope.chats \ DOMAIN active_votes :
            ~(/\ answer'.reply = "Ended"
              /\ UNCHANGED <<sessions, finalizing>>)
            => \A u \in scope.users \cap {answer'.from}, d \in Ballots,
                  m \in DOMAIN display :
                  ~process_vote(c, u, d, m)]_vars

\* C3 witness: a session with ballots has been popped, its finalize_vote
\* is still awaiting the platform, and a ballot that arrived since was
\* answered "ended".
C3_Witness ==
    \E f \in finalizing :
        /\ answer.reply = "Ended"
        /\ f.sid \in DOMAIN sessions
        /\ sessions[f.sid].voters # {}
        /\ f.total_votes = Cardinality(sessions[f.sid].voters)

\* C4 (as claimed): in every state of an active session votes_yes +
\* votes_no equals the number of voters, whatever option token the
\* accepted ballots carried.
C4_TallyMatchesVoters ==
    \A c \in DOMAIN active_votes :
        VoteData(c).votes_yes + VoteData(c).votes_no
            = Cardinality(VoteData(c).voters)

\* C5: a ballot from a voter already in the session's voters set is
\* answered AlreadyVoted and changes nothing, whatever it declares.
C5_AlreadyVoted ==
    [][\A c \in DOMAIN active_votes :
          ~(/\ answer'.reply = "AlreadyVoted"
            /\ UNCHANGED <<sessions, active_votes>>)
          => \A u \in VoteData(c).voters \cap {answer'.from},
                d \in Ballots, m \in DOMAIN display :
                ~process_vote(c, u, d, m)]_vars

\* C5 witness: three voters approved, and one of them who voted again was
\* answered AlreadyVoted with the tally still 3/0 of 3 voters.
C5_Witness ==
    \E c \in DOMAIN active_votes :
        /\ answer.reply = "AlreadyVoted"
        /\ answer.from \in VoteData(c).voters
        /\ VoteData(c).votes_yes = 3
        /\ VoteData(c).votes_no = 0
        /\ Cardinality(VoteData(c).voters) = 3

\* C6 (as claimed): every ballot whose declared type or target differs
\* from the active session's is answered Stale and leaves the session
\* unchanged.
C6_MismatchIsStale ==
    [][\A c \in DOMAIN active_votes :
          ~(/\ answer'.reply = "Stale"
            /\ UNCHANGED <<sessions, active_votes>>)
          => \A u \in scope.users \cap {answer'.from}, d \in Ballots,
                m \in DOMAIN display :
                ~(/\ WellFormed(d)
                  /\ DeclaredMismatch(VoteData(c), d)
                  /\ process_vote(c, u, d, m))]_vars

\* C6 (amended): a ballot whose declared type or target differs from the
\* active session's leaves the session unchanged; it is answered Stale when
\* its sender has not voted in the session, and AlreadyVoted when they have.
C6_MismatchRejected ==
    [][\A c \in DOMAIN active_votes :
          \A u \in scope.users \cap {answer'.from} :
              ~(/\ answer'.reply =
                      IF u \in VoteData(c).voters
                      THEN "AlreadyVoted" ELSE "Stale"
                /\ UNCHANGED <<sessions, active_votes>>)
              => \A d \in Ballots, m \in DOMAIN display :
                    ~(/\ WellFormed(d)
                      /\ DeclaredMismatch(VoteData(c), d)
                      /\ process_vote(c, u, d, m))]_vars

\* C6 witness: a session with ballots is active and a ballot from a user
\* who has not voted in it was answered Stale.
C6_Witness ==
    \E c \in DOMAIN active_votes :
        /\ answer.reply = "Stale"
        /\ answer.from \notin VoteData(c).voters
        /\ VoteData(c).voters # {}

\* C7: at finalize the mute/ban call is issued if and only if the popped
\* session's votes_yes is at least its votes_needed; votes_no plays no part.
C7_ApproveOnlyGate ==
    \A f \in finalizing :
        /\ f.sid \in DOMAIN sessions
        /\ (execCalls[f.sid] >= 1) <=>
               (sessions[f.sid].votes_yes >= sessions[f.sid].votes_needed)

\* C7 witness: a mute vote was finalized with 3 approvals and 2 rejections
\* against a threshold of 3, and the mute call was issued.
C7_Witness ==
    \E f \in finalizing :
        /\ f.type = "mute"
        /\ f.votes_yes = 3
        /\ f.votes_no = 2
        /\ f.votes_needed = 3
        /\ execCalls[f.sid] = 1

C9_PrivilegedTargetImmune ==
    /\ \A sid \in DOMAIN sessions :
          ~IsPrivileged(Status(sessions[sid].target_user_id))
    /\ \A t \in starting :
          t.pc = "answer" => ~IsPrivileged(Status(t.target))

\* C10 (as claimed): no session is ever created whose target was in the
\* chat's assigned admin set at the time of the start request.
C10_AssignedAdminImmune ==
    \A sid \in DOMAIN sessions : sid \notin assignedAtStart

\* The replies of a start request rejected by policy.
PolicyRejections ==
    {"AlreadyActive", "NoReplyTarget", "TargetIsPrivileged", "SelfTarget"}

\* C11: a start request rejected by policy leaves active_votes and the
\* sessions unchanged, arms no timer and is over; a request whose
\* initiator is its target is always rejected, so no session exists that
\* was asked for by its own target.
C11_RejectedStartChangesNothing ==
    [][/\ answer'.reply \in PolicyRejections =>
            /\ UNCHANGED <<active_votes, sessions, timers>>
            /\ starting' \subseteq starting
       /\ \A t \in starting, ok \in BOOLEAN :
            (start_vote_checked(t, ok) /\ t.from = t.target) =>
                /\ answer'.reply \in {"TargetIsPrivileged", "SelfTarget"}
                /\ \A t2 \in starting' : t2.id # t.id
       /\ \A sid \in DOMAIN sessions' : sid \notin selfAtStart'
       /\ \A t \in timers' : t.id \notin selfAtStart']_vars

\* C11 witness: a plain member (user 3) asked for a vote against themself
\* and was answered SelfTarget; the chat has no session and no timer.
C11_Witness ==
    /\ answer = Reply("SelfTarget", 3, 3)
    /\ 1 \in selfAtStart
    /\ active_votes = EmptyDict
    /\ timers = {}

\* C12 (as claimed): a session leaves active_votes only through
\* finalize_vote and exactly once: every session that was stored is either
\* still the session of its chat or was popped by finalize_vote once, and
\* a popped session is not stored again.
C12_LeavesOnlyThroughFinalize ==
    \A sid \in DOMAIN removed :
        LET active == \E c \in DOMAIN active_votes : active_votes[c] = sid
        IN
        /\ active \/ removed[sid] = 1
        /\ active => removed[sid] = 0

\* C13: there is no early finalization: a process_vote step never removes
\* a session, starts a finalize or issues a mute/ban call; a session whose
\* votes_yes has reached votes_needed still accepts the matching ballot of
\* a new voter; and a chat's session leaves active_votes only in the step
\* of an end_vote_timer task of that chat.  (The first part is stated
\* contrapositively: a step that does otherwise is not a process_vote step.)
C13_NoEarlyFinalize ==
    [][/\ \A c \in scope.chats :
            \A u \in scope.users \cap {answer'.from}, d \in Ballots,
             m \in DOMAIN display :
                ~(/\ UNCHANGED <<active_votes, timers, finalizing,
                                 removed, execCalls>>
                  /\ (/\ c \in DOMAIN active_votes
                      /\ VoteData(c).votes_yes >= VoteData(c).votes_needed
                      /\ u \notin VoteData(c).voters
                      /\ WellFormed(d)
                      /\ ~DeclaredMismatch(VoteData(c), d))
                     => /\ answer'.reply = "Accepted"
                        /\ sessions'[active_votes[c]].voters =
                              VoteData(c).voters \cup {u})
                => ~process_vote(c, u, d, m)
       /\ \A c \in DOMAIN active_votes :
            c \notin DOMAIN active_votes' =>
                \E t \in timers : t.chat = c /\ t \notin timers']_vars

\* C13 witness: a mute vote with a threshold of 3 has 4 approvals, is
\* still active with its timer asleep, and has just accepted a ballot.
C13_Witness ==
    \E c \in DOMAIN active_votes :
        /\ VoteData(c).votes_needed = 3
        /\ VoteData(c).votes_yes = 4
        /\ answer.reply = "Accepted"
        /\ \E t \in timers : t.chat = c
        /\ finalizing = {}

\* C14: the duration given to the mute/ban call is the chat's setting when
\* finalize_vote runs, not when the vote started: the finalize started by
\* a timer step carries the current mute_duration for a mute and the
\* current ban_duration for a ban (0: indefinite), while its threshold is
\* the votes_needed stored in the session at creation.
C14_SettingsAtFinalize ==
    [][\A t \in timers :
          (end_vote_timer(t) /\ t.chat \in DOMAIN active_votes) =>
              LET sid == active_votes[t.chat]
                  vd == sessions[sid]
                  now == chat_settings'[t.chat]
              IN
              \E f \in finalizing' \ finalizing :
                  /\ f.sid = sid
                  /\ f.duration = IF vd.type = "mute"
                                  THEN now.mute_duration
                                  ELSE now.ban_duration
                  /\ f.votes_needed = vd.votes_needed
                  /\ (f.pc = "execute") <=>
                         (vd.votes_yes >= vd.votes_needed)]_vars

\* C14 witness: a mute vote was stored while mute_duration was 300, the
\* owner set it to 60 during the vote, and the triggered mute call is
\* issued for 60 seconds.
C14_Witness ==
    \E f \in finalizing :
        /\ f.type = "mute"
        /\ f.pc = "execute"
        /\ durationAtStart[f.sid] = 300
        /\ f.duration = 60

\* C15: when the mute/ban call fails, the failure is caught: the session
\* stays out of active_votes, no second call is issued, the finalize goes
\* on to send the summary, and the summary that is sent tells the tally
\* finalize_vote read and the error.
C15_ExecutionFailureIsReported ==
    [][/\ \A f \in finalizing :
            finalize_vote_executed(f, FALSE) =>
                /\ UNCHANGED <<active_votes, sessions, timers, removed,
                               execCalls>>
                /\ \A c \in DOMAIN active_votes' : active_votes'[c] # f.sid
                /\ execCalls'[f.sid] = 1
                /\ \E g \in finalizing' :
                      /\ g.sid = f.sid
                      /\ g.pc = "send_message"
                      /\ g.error
                      /\ g.votes_yes = f.votes_yes
                      /\ g.votes_no = f.votes_no
                      /\ g.total_votes = f.total_votes
       /\ \A f \in finalizing :
            finalize_vote_sent(f, TRUE) =>
                /\ answer'.reply = "Summary"
                /\ answer'.text.votes_yes = sessions[f.sid].votes_yes
                /\ answer'.text.votes_no = sessions[f.sid].votes_no
                /\ answer'.text.total_votes =
                      Cardinality(sessions[f.sid].voters)
                /\ answer'.text.error = f.error
                /\ summaries'[f.sid] = 1
                /\ execCalls'[f.sid] <= 1]_vars

\* C15 witness: a mute vote with 3 approvals and 1 rejection was finalized,
\* the mute call failed, and the summary just sent tells 3/1 of 4 voters
\* and the error; the chat has no session.
C15_Witness ==
    /\ answer.reply = "Summary"
    /\ answer.text.error
    /\ answer.text.activated
    /\ answer.text.votes_yes = 3
    /\ answer.text.votes_no = 1
    /\ answer.text.total_votes = 4
    /\ active_votes = EmptyDict
    /\ \E sid \in DOMAIN execCalls : execCalls[sid] = 1 /\ summaries[sid] = 1

\* finalize_vote has popped session sid.
Removed(sid) == sid \in DOMAIN removed /\ removed[sid] = 1

\* The finalize of session sid is at `await bot.send_message` (line 785).
SendIssued(sid) ==
    \E f \in finalizing : f.sid = sid /\ f.pc = "send_message"

\* The finalize of session sid awaits its mute/ban call.
Executing(sid) ==
    \E f \in finalizing : f.sid = sid /\ f.pc = "execute"

\* One outcome summary of session sid has been sent.
SummarySent(sid) == sid \in DOMAIN summaries /\ summaries[sid] = 1

ChatView(b) ==
    [session |-> IF b \in DOMAIN active_votes
                 THEN <<active_votes[b], sessions[active_votes[b]]>>
                 ELSE <<>>,
     timers |-> {t \in timers : t.chat = b},
     finalizing |-> {f \in finalizing : f.chat = b}]

\* The step is a step of an operation for chat b: a start request, a
\* timer or a finalize of chat b goes on, or a ballot is cast in chat b.
StepFor(b) ==
    \/ \E t \in starting : t.chat = b /\ t \notin starting'
    \/ \E t \in timers : t.chat = b /\ t \notin timers'
    \/ \E f \in finalizing : f.chat = b /\ f \notin finalizing'
    \/ \E u \in scope.users \cap {answer'.from}, d \in Ballots,
             m \in DOMAIN display :
          process_vote(b, u, d, m)

\* C17: chats are independent: the session, tally, voter set, timers and
\* finalize calls of a chat change only in steps of operations for that
\* chat, and a step for one chat changes those of no other chat.
C17_ChatsAreIndependent ==
    [][\A b \in scope.chats :
          /\ ChatView(b)' # ChatView(b) => StepFor(b)
          /\ StepFor(b) =>
                \A a \in scope.chats \ {b} : ChatView(a)' = ChatView(a)]_vars

\* C17 witness: chat 1 and chat 2 both had a vote; the vote of chat 2 was
\* finalized with its tally, while the vote of chat 1 is still active with
\* a different tally and its timer asleep.
C17_Witness ==
    /\ 1 \in DOMAIN active_votes
    /\ Cardinality(VoteData(1).voters) = 1
    /\ \E t \in timers : t.chat = 1
    /\ \E f \in finalizing : f.chat = 2 /\ f.total_votes = 3

\* C18: the tally shown on a vote message never regresses while its
\* session is active: the approve, reject and participant counts in the
\* message text are non-decreasing.
C18_DisplayNeverRegresses ==
    [][\A m \in DOMAIN display \cap DOMAIN sessions :
          /\ display'[m].text.votes_yes >= display[m].text.votes_yes
          /\ display'[m].text.votes_no >= display[m].text.votes_no
          /\ display'[m].text.total_votes >= display[m].text.total_votes]_vars

\* C19: a deadline timer finalizes only the session it was armed for: when
\* an end_vote_timer task wakes and finds a session in its chat, that
\* session is the one stored by the start request that armed the timer.
C19_TimerFinalizesOwnSession ==
    [][\A t \in timers :
          (end_vote_timer(t) /\ t.chat \in DOMAIN active_votes) =>
              active_votes[t.chat] = t.id]_vars

\* The callback data of a button of vote message m.
ButtonData(o, m) == CallbackData(o, display[m].type, display[m].target)

\* C20: a ballot cast from the message of a vote that has already ended is
\* never counted toward a later session of the chat: pressing a button of
\* the message of a finalized session changes no session.
C20_EndedVoteBallotNotCounted ==
    [][\A c \in DOMAIN active_votes :
          \A u \in scope.users \cap {answer'.from}, o \in scope.options,
             m \in DOMAIN display :
              (/\ removed[m] > 0
               /\ m # VoteData(c).message_id
               /\ process_vote(c, u, ButtonData(o, m), m)) =>
                  UNCHANGED sessions]_vars

\* The ranges of the three durations: vote 30..3600, mute 30..86400
\* (never 0), ban 0 or 30..86400.
DurationsInRange(s) ==
    /\ s.vote_duration \in 30..3600
    /\ s.mute_duration \in 30..86400
    /\ s.ban_duration = 0 \/ s.ban_duration \in 30..86400

\* The set command of user `from` with argument arg is one a chat must
\* ignore: its sender is no admin, or the value is missing, not a number
\* or out of range.
Ignorable(c, from, arg, inRange, okOwner, okMember) ==
    \/ ~is_admin(chat_admins, c, from, okOwner, okMember)
    \/ arg.kind # "int"
    \/ ~inRange

\* C21: whatever set commands are sent, by whomever, the durations of a
\* chat stay in their ranges (the mute duration is never 0), and a command
\* of a non-admin or with a missing, non-numeric or out-of-range value
\* leaves chat_settings unchanged (stated contrapositively: a step that
\* changes chat_settings is not such a command).
C21_DurationsStayInRange ==
    /\ [](\A c \in DOMAIN chat_settings : DurationsInRange(chat_settings[c]))
    /\ [][chat_settings' # chat_settings =>
            \A c \in scope.chats, from \in scope.setters \cap {answer'.from},
               okOwner \in scope.lookups, okMember \in scope.lookups :
               /\ \A arg \in scope.args.vote_duration :
                    ~(/\ Ignorable(c, from, arg, arg.seconds \in 30..3600,
                                   okOwner, okMember)
                      /\ cmd_set_vote_time(c, from, arg, okOwner, okMember))
               /\ \A arg \in scope.args.mute_duration :
                    ~(/\ Ignorable(c, from, arg, arg.seconds \in 30..86400,
                                   okOwner, okMember)
                      /\ cmd_set_mute_time(c, from, arg, okOwner, okMember))
               /\ \A arg \in scope.args.ban_duration :
                    ~(/\ Ignorable(c, from, arg,
                                   \/ arg.seconds = 0
                                   \/ arg.seconds \in 30..86400,
                                   okOwner, okMember)
                      /\ cmd_set_ban_time(c, from, arg, okOwner,
                                          okMember))]_vars

\* C21 witness: the durations of a chat have been set to ends of their
\* ranges (vote 3600, mute 30, ban 86400) and a command just sent by an
\* admin with an out-of-range value was refused.
C21_Witness ==
    /\ answer.reply = "OutOfRange"
    /\ \E c \in DOMAIN chat_settings :
          /\ chat_settings[c].vote_duration = 3600
          /\ chat_settings[c].mute_duration = 30
          /\ chat_settings[c].ban_duration = 86400

\* chat_settings after a set command that defaults the chat's settings on
\* first access and then stores `seconds` under `key`.
DefaultedThenSet(c, key, seconds) ==
    [get_chat_settings(chat_settings, c) EXCEPT ![c][key] = seconds]

\* C22: settings are defaulted lazily on first access of any kind: a valid
\* set command of an admin succeeds whether or not the chat's settings
\* were read before, and leaves the chat with the new value for its key
\* and, in a chat never read before, the defaults for the other keys.
C22_SetCommandDefaultsLazily ==
    [][\A c \in scope.chats, from \in scope.setters \cap {answer'.from},
          okOwner \in scope.lookups, okMember \in scope.lookups :
          /\ \A arg \in scope.args.vote_duration :
               (/\ ~Ignorable(c, from, arg, arg.seconds \in 30..3600,
                              okOwner, okMember)
                /\ cmd_set_vote_time(c, from, arg, okOwner, okMember))
               => chat_settings' =
                     DefaultedThenSet(c, "vote_duration", arg.seconds)
          /\ \A arg \in scope.args.mute_duration :
               (/\ ~Ignorable(c, from, arg, arg.seconds \in 30..86400,
                              okOwner, okMember)
                /\ cmd_set_mute_time(c, from, arg, okOwner, okMember))
               => chat_settings' =
                     DefaultedThenSet(c, "mute_duration", arg.seconds)
          /\ \A arg \in scope.args.ban_duration :
               (/\ ~Ignorable(c, from, arg,
                              \/ arg.seconds = 0
                              \/ arg.seconds \in 30..86400,
                              okOwner, okMember)
                /\ cmd_set_ban_time(c, from, arg, okOwner, okMember))
               => chat_settings' =
                     DefaultedThenSet(c, "ban_duration", arg.seconds)]_vars

\* Session sid was stored by its start request.
Created(sid) == sid \in DOMAIN removed

\* C23: under fair scheduling of timers and platform calls, every session
\* a start request stored is eventually popped by finalize_vote, which
\* decides and summarizes its tally; no stored session is lost.
C23_EverySessionFinalized ==
    \A sid \in 1..MaxStarts : Created(sid) ~> Removed(sid)

\* C24: when the member lookup for the target raises, the privileged
\* check is passed over instead of rejecting: the request goes on to the
\* self-target check, which alone can reject it; a request that passes
\* goes on to send the vote message, and once that message is sent its
\* session is stored under the chat and its timer armed.
C24_LookupFailureSkipsPrivilegedCheck ==
    [][/\ \A t \in starting :
            start_vote_checked(t, FALSE) =>
                IF t.from = t.target
                THEN /\ answer'.reply = "SelfTarget"
                     /\ \A s \in starting' : s.id # t.id
                ELSE /\ answer'.reply # "TargetIsPrivileged"
                     /\ \E s \in starting' :
                           /\ s.id = t.id
                           /\ s.pc = "answer"
                           /\ s.target = t.target
       /\ \A t \in starting :
            start_vote_sent(t, TRUE) =>
                /\ t.chat \in DOMAIN active_votes'
                /\ active_votes'[t.chat] = t.id
                /\ sessions'[t.id].target_user_id = t.target
                /\ sessions'[t.id].voters = {}
                /\ [id |-> t.id, chat |-> t.chat] \in timers' \ timers]_vars

\* C24 witness: a vote against the platform administrator (user 2), whose
\* lookup can only have raised, has just been started: its session is
\* active and its timer armed.
C24_Witness ==
    /\ answer.reply = "VoteStarted"
    /\ \E c \in DOMAIN active_votes :
          /\ IsPrivileged(Status(VoteData(c).target_user_id))
          /\ \E t \in timers : t.chat = c /\ t.id = active_votes[c]

\* C25: process_vote checks in the order no active session, AlreadyVoted,
\* Stale: a ballot in a chat without a session is answered Ended; a ballot
\* of a voter already in the session's voters is answered AlreadyVoted
\* even when its type or target does not match; a mismatching ballot of
\* anyone else is answered Stale; the session is unchanged in each case.
\* (Stated contrapositively: a step that does otherwise is not a
\* process_vote step.)
C25_CheckOrder ==
    [][\A c \in scope.chats, u \in scope.users \cap {answer'.from} :
          /\ ~(/\ UNCHANGED active_votes
               /\ (c \notin DOMAIN active_votes)
                     => (answer'.reply = "Ended" /\ UNCHANGED sessions)
               /\ (c \in DOMAIN active_votes /\ u \in VoteData(c).voters)
                     => /\ answer'.reply = "AlreadyVoted"
                        /\ UNCHANGED sessions)
             => \A d \in Ballots, m \in DOMAIN display :
                   ~process_vote(c, u, d, m)
          /\ ~(answer'.reply = "Stale" /\ UNCHANGED sessions)
             => \A d \in Ballots, m \in DOMAIN display :
                   ~(/\ c \in DOMAIN active_votes
                     /\ u \notin VoteData(c).voters
                     /\ WellFormed(d)
                     /\ DeclaredMismatch(VoteData(c), d)
                     /\ process_vote(c, u, d, m))]_vars

\* C25 witness: a voter of the active session has just sent a ballot that
\* declares another target than the session's and was answered
\* AlreadyVoted; the tally counts each voter once.
C25_Witness ==
    \E c \in DOMAIN active_votes :
        /\ answer.reply = "AlreadyVoted"
        /\ answer.from \in VoteData(c).voters
        /\ answer.target # 0
        /\ answer.target # VoteData(c).target_user_id
        /\ VoteData(c).votes_yes + VoteData(c).votes_no
              = Cardinality(VoteData(c).voters)

\* The ballot of the suspended process_vote call e is in the tally t (of a
\* session, or the locals of a finalize_vote call).
Counted(e, t) ==
    /\ t.votes_yes >= e.text.votes_yes
    /\ t.votes_no >= e.text.votes_no
    /\ t.total_votes >= e.text.total_votes

\* C26: an accepted ballot is never rolled back.  No step removes a voter
\* from a session or lowers one of its counts, whatever edit_text
\* returns; while the display update of an accepted ballot is in flight
\* its voter is in the session's voters and its count in the session's
\* tally; and the tally a finalize_vote call decides on is the tally of
\* the session it popped, so it holds the ballots whose update is still
\* in flight.
C26_AcceptedBallotNeverRolledBack ==
    /\ [](\A e \in editing :
             e.session \in DOMAIN sessions =>
                 /\ e.from \in sessions[e.session].voters
                 /\ Counted(e, CurrentText(sessions[e.session])))
    /\ [](\A f \in finalizing :
             /\ f.sid \in DOMAIN sessions
             /\ f.votes_yes = sessions[f.sid].votes_yes
             /\ f.votes_no = sessions[f.sid].votes_no
             /\ f.total_votes = Cardinality(sessions[f.sid].voters)
             /\ f.activated = Triggered(sessions[f.sid])
             /\ \A e \in editing : e.session = f.sid => Counted(e, f))
    /\ [][\A sid \in DOMAIN sessions \cap DOMAIN sessions' :
             /\ sessions[sid].voters \subseteq sessions'[sid].voters
             /\ sessions'[sid].votes_yes >= sessions[sid].votes_yes
             /\ sessions'[sid].votes_no >= sessions[sid].votes_no]_vars

\* C26 witness: edit_text has just failed for a voter, whose ballot is
\* still in the session, and the session was finalized while the display
\* update of another voter's ballot was in flight.
C26_Witness ==
    \E f \in finalizing, e \in editing :
        /\ e.session = f.sid
        /\ answer.reply = "Error"
        /\ answer.from # e.from
        /\ {answer.from, e.from} \subseteq sessions[f.sid].voters
        /\ f.total_votes = Cardinality(sessions[f.sid].voters)
        /\ f.total_votes >= 2

====
